---- MODULE Spec2Model ----
(***************************************************************************)
(* Payment requests (requests_app/request): the lifecycle state machine    *)
(* of PaymentRequest, the Celery worker process_payment_request, the       *)
(* post_save signal that schedules it, and the REST actions that change a  *)
(* request.  One request row is modelled; workers and API requests are     *)
(* processes that interleave on it.  The database is PostgreSQL at READ    *)
(* COMMITTED with ATOMIC_REQUESTS: a plain SELECT takes no lock and sees   *)
(* the committed row, SELECT ... FOR UPDATE and UPDATE/DELETE take the     *)
(* row lock and hold it until the transaction ends.                        *)
(***************************************************************************)
EXTENDS Integers, Sequences, FiniteSets, TLC

\* ---------------------------------------------------------------- bounds
NumWorkers == 2
NumApi == 2

Workers == 1..NumWorkers
Api == 1..NumApi

\* -------------------------------------------------------- PaymentRequest
PENDING == "pending"
PROCESSING == "processing"
APPROVED == "approved"
REJECTED == "rejected"
COMPLETED == "completed"
CANCELLED == "cancelled"

Status == {PENDING, PROCESSING, APPROVED, REJECTED, COMPLETED, CANCELLED}

\* processed_at is nullable; timestamps are readings (>= 1) of the clock.
Null == 0

\* rejection_reason defaults to the empty string (blank=True).
Blank == ""

AllFields == {"status", "rejection_reason", "processed_at", "updated_at"}

\* The in-memory instance of a process that has loaded none.
NoInst ==
    [status |-> "none", rejection_reason |-> Blank, processed_at |-> Null,
     updated_at |-> Null]

\* The stored row when there is none (not yet committed, or deleted).
NoRow ==
    [exists |-> FALSE, status |-> "none", rejection_reason |-> Blank,
     processed_at |-> Null, updated_at |-> Null]

\* The instance a SELECT builds from the stored row.
Load(r) ==
    [status |-> r.status, rejection_reason |-> r.rejection_reason,
     processed_at |-> r.processed_at, updated_at |-> r.updated_at]

can_be_cancelled(inst) == inst.status \in {PENDING, PROCESSING}

\* A faulty approve(): it also acts from PROCESSING.
approve_from_processing(inst) ==
    IF inst.status \in {PENDING, PROCESSING}
    THEN [inst |-> [inst EXCEPT !.status = APPROVED],
          update_fields |-> {"status", "updated_at"}]
    ELSE [inst |-> inst, update_fields |-> {}]

\* Each transition method returns the instance it leaves and the
\* update_fields it saves ({} when it does not call save).  t is the
\* reading of timezone.now() the method may take.
approve(inst) ==
    IF inst.status = PENDING
    THEN [inst |-> [inst EXCEPT !.status = APPROVED],
          update_fields |-> {"status", "updated_at"}]
    ELSE [inst |-> inst, update_fields |-> {}]

\* A faulty reject(): it lacks the status guard.
reject_unguarded(inst, reason) ==
    [inst |-> [inst EXCEPT !.status = REJECTED, !.rejection_reason = reason],
     update_fields |-> {"status", "rejection_reason", "updated_at"}]

\* A faulty reject(): guarded like approve(), it acts from PENDING only.
reject_from_pending_only(inst, reason) ==
    IF inst.status = PENDING
    THEN [inst |-> [inst EXCEPT !.status = REJECTED,
                                !.rejection_reason = reason],
          update_fields |-> {"status", "rejection_reason", "updated_at"}]
    ELSE [inst |-> inst, update_fields |-> {}]

\* A faulty reject(): it sets the status and forgets the reason.
reject_drops_reason(inst, reason) ==
    IF inst.status \in {PENDING, PROCESSING}
    THEN [inst |-> [inst EXCEPT !.status = REJECTED],
          update_fields |-> {"status", "rejection_reason", "updated_at"}]
    ELSE [inst |-> inst, update_fields |-> {}]

reject(inst, reason) ==
    IF inst.status \in {PENDING, PROCESSING}
    THEN [inst |-> [inst EXCEPT !.status = REJECTED,
                                !.rejection_reason = reason],
          update_fields |-> {"status", "rejection_reason", "updated_at"}]
    ELSE [inst |-> inst, update_fields |-> {}]

\* A faulty complete(): it forgets to stamp processed_at.
complete_without_stamp(inst, t) ==
    IF inst.status = APPROVED
    THEN [inst |-> [inst EXCEPT !.status = COMPLETED],
          update_fields |-> {"status", "updated_at"}]
    ELSE [inst |-> inst, update_fields |-> {}]

\* A faulty complete(): it also acts on a COMPLETED request and stamps
\* processed_at again.
complete_restamps(inst, t) ==
    IF inst.status \in {APPROVED, COMPLETED}
    THEN [inst |-> [inst EXCEPT !.status = COMPLETED, !.processed_at = t],
          update_fields |-> {"status", "processed_at", "updated_at"}]
    ELSE [inst |-> inst, update_fields |-> {}]

complete(inst, t) ==
    IF inst.status = APPROVED
    THEN [inst |-> [inst EXCEPT !.status = COMPLETED, !.processed_at = t],
          update_fields |-> {"status", "processed_at", "updated_at"}]
    ELSE [inst |-> inst, update_fields |-> {}]

\* A faulty cancel(): it lacks the can_be_cancelled guard.
cancel_unguarded(inst) ==
    [inst |-> [inst EXCEPT !.status = CANCELLED],
     update_fields |-> {"status", "updated_at"}]

cancel(inst) ==
    IF can_be_cancelled(inst)
    THEN [inst |-> [inst EXCEPT !.status = CANCELLED],
          update_fields |-> {"status", "updated_at"}]
    ELSE [inst |-> inst, update_fields |-> {}]

\* A faulty updated_at: without auto_now, a save leaves the stamp as read.
PreSaveWithoutAutoNow(inst, fields, t) == inst

\* updated_at has auto_now=True: pre_save stamps the instance with the
\* clock reading t whenever updated_at is among the saved fields.
PreSave(inst, fields, t) ==
    IF "updated_at" \in fields THEN [inst EXCEPT !.updated_at = t] ELSE inst

\* The row an UPDATE of `fields` from `inst` leaves: the other columns keep
\* their stored values.
Written(r, inst, fields) ==
    [exists |-> TRUE,
     status |-> IF "status" \in fields THEN inst.status ELSE r.status,
     rejection_reason |-> IF "rejection_reason" \in fields
                          THEN inst.rejection_reason ELSE r.rejection_reason,
     processed_at |-> IF "processed_at" \in fields
                      THEN inst.processed_at ELSE r.processed_at,
     updated_at |-> IF "updated_at" \in fields
                    THEN inst.updated_at ELSE r.updated_at]

\* ---------------------------------------------------------------- signals
Countdown == 2

\* trigger_payment_processing: the on_commit callbacks a post_save
\* registers, each one apply_async call.
trigger_payment_processing(created, status) ==
    IF created /\ status = PENDING
    THEN << [args |-> "id", countdown |-> Countdown] >>
    ELSE << >>

\* ------------------------------------------------------------------ state
VARIABLES
    row,        \* the committed row of the request
    lock,       \* the holder of the row lock
    now,        \* the next reading of timezone.now()
    ctx,        \* the transaction that creates the request
    calls,      \* the apply_async calls made so far
    wpc,        \* each worker run's position in process_payment_request
    winst,      \* each worker run's payment_request
    wsuccess,   \* each worker run's is_success
    wresult,    \* each worker run's return value
    apc,        \* each API request's position in its view
    areq,       \* each API request's action and data
    ainst,      \* each API request's instance
    awrite,     \* each API request's pending write
    aresp,      \* each API request's response status
    wsaved,     \* history: the statuses each worker run has saved
    hist        \* history: what has been committed so far

vars ==
    << row, lock, now, ctx, calls, wpc, winst, wsuccess, wresult,
       apc, areq, ainst, awrite, aresp, wsaved, hist >>

wvars == << wpc, winst, wsuccess, wresult, wsaved >>
avars == << apc, areq, ainst, awrite, aresp >>

NoLock == << "none", 0 >>
WorkerTx(w) == << "worker", w >>
ApiTx(a) == << "api", a >>
CreateTx == << "create", 0 >>

\* The history after the commit of a save that leaves the row `r`: whether
\* COMPLETED was ever stored, how many rows were inserted as PENDING, and
\* the statuses the row has left.
Committed(r, created) ==
    [completed |-> hist.completed \/ r.status = COMPLETED,
     inserts |-> IF created /\ r.status = PENDING
                 THEN hist.inserts + 1 ELSE hist.inserts,
     left |-> IF row.exists /\ row.status # r.status
              THEN hist.left \cup {row.status} ELSE hist.left]

\* ------------------------------------------------------------ API requests
Absent == "absent"
UserReason == "insufficient funds"
AdminReason == "Rejected by administrator"

\* What a request carries: the action, the "reason" of POST .../reject/, and
\* the status and rejection_reason of a PATCH body (Absent: not in the body).
Req(kind, reason, status, rejection_reason) ==
    [kind |-> kind, reason |-> reason, status |-> status,
     rejection_reason |-> rejection_reason]

NoReq == Req("none", Blank, Absent, Absent)

\* POST .../approve/, reject/, complete/, cancel/
TransitionRequests ==
    { Req(k, Blank, Absent, Absent) : k \in {"approve", "complete", "cancel"} }
        \cup { Req("reject", r, Absent, Absent) : r \in {Blank, UserReason} }

\* PATCH with any of status and rejection_reason (description is not stored
\* in the model: a PATCH of description alone is the body without both).
PatchRequests ==
    { Req("partial_update", Blank, s, r) :
          s \in Status \cup {Absent}, r \in {Absent, Blank, UserReason} }

DestroyRequests == { Req("destroy", Blank, Absent, Absent) }

\* The admin's bulk actions on a queryset holding the request.
AdminRequests ==
    { Req(k, Blank, Absent, Absent) :
          k \in {"approve_requests", "reject_requests", "complete_requests"} }

Requests ==
    TransitionRequests \cup PatchRequests \cup DestroyRequests
        \cup AdminRequests

IsAdmin(req) == req \in AdminRequests

\* A pending write: the update_fields of a save (AllFields for a plain
\* save()), whether the save inserted the row, or a DELETE.
NoWrite == [fields |-> {}, created |-> FALSE, delete |-> FALSE]

\* PaymentRequestUpdateSerializer.validate_status
allowed_transitions(current) ==
    CASE current = PENDING -> {PROCESSING, APPROVED, REJECTED, CANCELLED}
      [] current = PROCESSING -> {APPROVED, REJECTED, CANCELLED}
      [] current = APPROVED -> {COMPLETED, CANCELLED}
      [] OTHER -> {}

\* A faulty validate_status: the branch for COMPLETED, REJECTED and
\* CANCELLED is missing, so any status is accepted on such a request.
validate_status_without_terminal_branch(inst, value) ==
    inst.status \in {PENDING, PROCESSING, APPROVED}
        => value \in allowed_transitions(inst.status)

validate_status(inst, value) ==
    IF inst.status \in {PENDING, PROCESSING, APPROVED}
    THEN value \in allowed_transitions(inst.status)
    ELSE ~ (inst.status \in {COMPLETED, REJECTED, CANCELLED})

\* PaymentRequestUpdateSerializer.validate ("not x" holds of a missing and
\* of an empty string alike)
validate(inst, req) ==
    req.status = REJECTED =>
        ~ (req.rejection_reason \in {Absent, Blank}
           /\ inst.rejection_reason = Blank)

\* serializer.is_valid for a PATCH: validate_status runs only when the body
\* holds a status.
is_valid(inst, req) ==
    /\ req.status # Absent => validate_status(inst, req.status)
    /\ validate(inst, req)

\* PaymentRequestUpdateSerializer.update: stamp processed_at on a change to
\* COMPLETED, set the validated attributes, then a plain save().
update(inst, req, t) ==
    LET stamped == req.status = COMPLETED /\ inst.status # req.status
    IN  [inst |->
            [inst EXCEPT
               !.status = IF req.status # Absent THEN req.status ELSE @,
               !.rejection_reason =
                   IF req.rejection_reason # Absent
                   THEN req.rejection_reason ELSE @,
               !.processed_at = IF stamped THEN t ELSE @],
         update_fields |-> AllFields]

\* The status check each view (and admin action) makes before it acts.
Allowed(inst, req) ==
    CASE req.kind \in {"approve", "approve_requests"} ->
             inst.status = PENDING
      [] req.kind \in {"reject", "reject_requests"} ->
             inst.status \in {PENDING, PROCESSING}
      [] req.kind \in {"complete", "complete_requests"} ->
             inst.status = APPROVED
      [] req.kind = "cancel" -> can_be_cancelled(inst)
      [] req.kind = "partial_update" -> is_valid(inst, req)
      [] req.kind = "destroy" -> ~ (inst.status \in {COMPLETED, PROCESSING})
      [] OTHER -> FALSE

\* What the view then does to its instance.
Act(inst, req, t) ==
    CASE req.kind \in {"approve", "approve_requests"} -> approve(inst)
      [] req.kind = "reject" -> reject(inst, req.reason)
      [] req.kind = "reject_requests" -> reject(inst, AdminReason)
      [] req.kind \in {"complete", "complete_requests"} -> complete(inst, t)
      [] req.kind = "cancel" -> cancel(inst)
      [] req.kind = "partial_update" -> update(inst, req, t)
      [] OTHER -> [inst |-> inst, update_fields |-> {}]

Init ==
    /\ row = NoRow
    /\ lock = NoLock
    /\ now = 1
    /\ ctx = [pc |-> "none", status |-> "none", updated_at |-> Null,
              on_commit |-> << >>]
    /\ calls = << >>
    /\ wpc = [w \in Workers |-> "idle"]
    /\ winst = [w \in Workers |-> NoInst]
    /\ wsuccess = [w \in Workers |-> FALSE]
    /\ wresult = [w \in Workers |-> "none"]
    /\ apc = [a \in Api |-> "idle"]
    /\ areq = [a \in Api |-> NoReq]
    /\ ainst = [a \in Api |-> NoInst]
    /\ awrite = [a \in Api |-> NoWrite]
    /\ aresp = [a \in Api |-> Null]
    /\ wsaved = [w \in Workers |-> << >>]
    /\ hist = [completed |-> FALSE, inserts |-> 0, left |-> {}]

\* --------------------------------------------------------------- creation
\* Model.save() of a new instance inside the creating transaction: the
\* INSERT, then post_save with created=True.
Insert(s) ==
    /\ ctx.pc = "none"
    /\ ctx' = [pc |-> "saved", status |-> s, updated_at |-> now,
               on_commit |-> trigger_payment_processing(TRUE, s)]
    /\ now' = now + 1
    /\ UNCHANGED << row, lock, calls, hist >>
    /\ UNCHANGED wvars
    /\ UNCHANGED avars

\* POST /payouts/: PaymentRequestCreateSerializer.create forces PENDING.
ApiCreate == Insert(PENDING)

\* The admin's add form and PaymentRequest.objects.create take any status;
\* the model draws it from CreateStatuses.
CreateStatuses == {PENDING, APPROVED}

AdminCreate(s) == Insert(s)

\* The creating transaction commits: the row becomes visible and the
\* on_commit callbacks run.
CreateCommit ==
    /\ ctx.pc = "saved"
    /\ ctx' = [ctx EXCEPT !.pc = "committed", !.on_commit = << >>]
    /\ row' = [exists |-> TRUE, status |-> ctx.status,
               rejection_reason |-> Blank, processed_at |-> Null,
               updated_at |-> ctx.updated_at]
    /\ calls' = calls \o ctx.on_commit
    /\ hist' = Committed(row', TRUE)
    /\ UNCHANGED << lock, now >>
    /\ UNCHANGED wvars
    /\ UNCHANGED avars

\* A faulty dispatch: apply_async raises inside the transaction, so the
\* failure rolls the creation back.
DispatchFailsInsideTransaction ==
    /\ ctx.pc = "saved"
    /\ ctx.on_commit # << >>
    /\ ctx' = [ctx EXCEPT !.pc = "dispatch_failed", !.on_commit = << >>]
    /\ UNCHANGED << row, lock, now, calls, hist >>
    /\ UNCHANGED wvars
    /\ UNCHANGED avars

\* The creating transaction commits and the on_commit callback then raises
\* (the broker is unreachable): the commit has already happened, so the row
\* is visible, but apply_async has published nothing.
DispatchFails ==
    /\ ctx.pc = "saved"
    /\ ctx.on_commit # << >>
    /\ ctx' = [ctx EXCEPT !.pc = "dispatch_failed", !.on_commit = << >>]
    /\ row' = [exists |-> TRUE, status |-> ctx.status,
               rejection_reason |-> Blank, processed_at |-> Null,
               updated_at |-> ctx.updated_at]
    /\ hist' = Committed(row', TRUE)
    /\ UNCHANGED << lock, now, calls >>
    /\ UNCHANGED wvars
    /\ UNCHANGED avars

\* The creating transaction rolls back (an exception before the response):
\* the row never exists and the callbacks are discarded.
CreateRollback ==
    /\ ctx.pc = "saved"
    /\ ctx' = [ctx EXCEPT !.pc = "rolledback", !.on_commit = << >>]
    /\ UNCHANGED << row, lock, now, calls, hist >>
    /\ UNCHANGED wvars
    /\ UNCHANGED avars

\* ----------------------------------------------- process_payment_request
WorkerReason == "Rejected by external system (simulated failure)"

\* max_retries of the task decorator.
MaxRetries == 3

\* A delivery of the scheduled task starts: select_for_update().get() waits
\* for the row lock, takes it and reads the row; DoesNotExist is caught.
WorkerLock1(w) ==
    /\ wpc[w] = "idle"
    /\ Len(calls) > 0
    /\ lock = NoLock
    /\ IF row.exists
       THEN /\ lock' = WorkerTx(w)
            /\ winst' = [winst EXCEPT ![w] = Load(row)]
            /\ wpc' = [wpc EXCEPT ![w] = "check1"]
            /\ UNCHANGED wresult
       ELSE /\ wpc' = [wpc EXCEPT ![w] = "done"]
            /\ wresult' = [wresult EXCEPT ![w] = "Failed: Request not found"]
            /\ UNCHANGED << lock, winst >>
    /\ UNCHANGED << row, now, ctx, calls, wsuccess, wsaved, hist >>
    /\ UNCHANGED avars

\* A faulty task: one transaction spans the whole run, so the save of
\* PROCESSING is not committed and the row lock is kept during the external
\* call.
WorkerCheck1KeepsLock(w) ==
    /\ wpc[w] = "check1"
    /\ IF winst[w].status # PENDING
       THEN /\ wpc' = [wpc EXCEPT ![w] = "done"]
            /\ wresult' = [wresult EXCEPT ![w] = "Skipped"]
            /\ lock' = NoLock
            /\ winst' = [winst EXCEPT ![w] = NoInst]
       ELSE /\ wpc' = [wpc EXCEPT ![w] = "external"]
            /\ winst' = [winst EXCEPT ![w].status = PROCESSING]
            /\ UNCHANGED << lock, wresult >>
    /\ UNCHANGED << row, now, ctx, calls, wsuccess, wsaved, hist >>
    /\ UNCHANGED avars

\* A faulty first block: the status read under the lock is not checked, and
\* PROCESSING is saved whatever it was.
WorkerCheck1NeverSkips(w) ==
    /\ wpc[w] = "check1"
    /\ lock' = NoLock
    /\ winst' = [winst EXCEPT ![w] = NoInst]
    /\ LET fields == {"status", "updated_at"}
           inst == PreSave([winst[w] EXCEPT !.status = PROCESSING],
                           fields, now)
       IN  /\ row' = Written(row, inst, fields)
           /\ now' = now + 1
           /\ calls' = calls \o trigger_payment_processing(FALSE, inst.status)
           /\ wsaved' = [wsaved EXCEPT ![w] = Append(@, inst.status)]
           /\ hist' = Committed(row', FALSE)
           /\ wpc' = [wpc EXCEPT ![w] = "external"]
    /\ UNCHANGED << ctx, wsuccess, wresult >>
    /\ UNCHANGED avars

\* Under the lock: skip unless PENDING, else save PROCESSING; the atomic
\* block ends, which commits and releases the lock.
WorkerCheck1(w) ==
    /\ wpc[w] = "check1"
    /\ lock' = NoLock
    /\ winst' = [winst EXCEPT ![w] = NoInst]
    /\ IF winst[w].status # PENDING
       THEN /\ wpc' = [wpc EXCEPT ![w] = "done"]
            /\ wresult' = [wresult EXCEPT ![w] = "Skipped"]
            /\ UNCHANGED << row, now, calls, wsaved, hist >>
       ELSE LET fields == {"status", "updated_at"}
                inst == PreSave([winst[w] EXCEPT !.status = PROCESSING],
                                fields, now)
            IN  /\ row' = Written(row, inst, fields)
                /\ now' = now + 1
                /\ calls' = calls \o
                       trigger_payment_processing(FALSE, inst.status)
                /\ wsaved' = [wsaved EXCEPT ![w] = Append(@, inst.status)]
                /\ hist' = Committed(row', FALSE)
                /\ wpc' = [wpc EXCEPT ![w] = "external"]
                /\ UNCHANGED wresult
    /\ UNCHANGED << ctx, wsuccess >>
    /\ UNCHANGED avars

\* The simulated external call, outside any transaction: it sleeps and
\* draws is_success.
WorkerExternal(w, ok) ==
    /\ wpc[w] = "external"
    /\ wsuccess' = [wsuccess EXCEPT ![w] = ok]
    /\ wpc' = [wpc EXCEPT ![w] = "lock2"]
    /\ UNCHANGED << row, lock, now, ctx, calls, winst, wresult, wsaved, hist >>
    /\ UNCHANGED avars

\* The second atomic block re-locks and re-reads; DoesNotExist is not
\* caught here and fails the task.
WorkerLock2(w) ==
    /\ wpc[w] = "lock2"
    /\ lock = NoLock
    /\ IF row.exists
       THEN /\ lock' = WorkerTx(w)
            /\ winst' = [winst EXCEPT ![w] = Load(row)]
            /\ wpc' = [wpc EXCEPT ![w] = "final"]
            /\ UNCHANGED wresult
       ELSE /\ wpc' = [wpc EXCEPT ![w] = "done"]
            /\ wresult' = [wresult EXCEPT ![w] = "raised DoesNotExist"]
            /\ UNCHANGED << lock, winst >>
    /\ UNCHANGED << row, now, ctx, calls, wsuccess, wsaved, hist >>
    /\ UNCHANGED avars

\* Under the lock: approve() or reject(reason) on the instance just read,
\* then commit.
WorkerFinal(w) ==
    /\ wpc[w] = "final"
    /\ LET r == IF wsuccess[w] THEN approve(winst[w])
                ELSE reject(winst[w], WorkerReason)
           inst == PreSave(r.inst, r.update_fields, now)
       IN  /\ row' = IF r.update_fields = {} THEN row
                     ELSE Written(row, inst, r.update_fields)
           /\ now' = IF r.update_fields = {} THEN now ELSE now + 1
           /\ calls' = IF r.update_fields = {} THEN calls
                       ELSE calls \o
                            trigger_payment_processing(FALSE, inst.status)
           /\ wsaved' = IF r.update_fields = {} THEN wsaved
                        ELSE [wsaved EXCEPT ![w] = Append(@, inst.status)]
           /\ hist' = Committed(row', FALSE)
    /\ lock' = NoLock
    /\ winst' = [winst EXCEPT ![w] = NoInst]
    /\ wpc' = [wpc EXCEPT ![w] = "done"]
    /\ wresult' = [wresult EXCEPT ![w] =
                      IF wsuccess[w] THEN "Approved" ELSE "Rejected"]
    /\ UNCHANGED << ctx, wsuccess >>
    /\ UNCHANGED avars

\* An unexpected database error (lock timeout, lost connection) raised by
\* select_for_update().get() or by save(): the atomic block rolls back, which
\* releases the lock, and the exception leaves the task, since the only
\* handler is for DoesNotExist.  The task never calls self.retry() and
\* declares no autoretry_for, so no retry message is published and
\* max_retries is never consulted.
WorkerError(w) ==
    /\ \/ wpc[w] = "idle" /\ Len(calls) > 0
       \/ wpc[w] = "check1" /\ winst[w].status = PENDING
       \/ wpc[w] = "lock2"
       \/ wpc[w] = "final"
    /\ lock' = IF lock = WorkerTx(w) THEN NoLock ELSE lock
    /\ winst' = [winst EXCEPT ![w] = NoInst]
    /\ wpc' = [wpc EXCEPT ![w] = "done"]
    /\ wresult' = [wresult EXCEPT ![w] = "raised OperationalError"]
    /\ UNCHANGED << row, now, ctx, calls, wsuccess, wsaved, hist >>
    /\ UNCHANGED avars

\* ------------------------------------------------------------------ views
\* get_object(): a plain SELECT inside the request's transaction; no lock
\* is taken.  A missing row is a 404 (an empty queryset for the admin).  The
\* view then checks the status it read and answers 400 if the action is not
\* allowed (the admin action skips the request).
ApiGetObject(a, req) ==
    /\ apc[a] = "idle"
    /\ IF row.exists /\ Allowed(Load(row), req)
       THEN /\ areq' = [areq EXCEPT ![a] = req]
            /\ ainst' = [ainst EXCEPT ![a] = Load(row)]
            /\ apc' = [apc EXCEPT ![a] = "save"]
            /\ UNCHANGED aresp
       ELSE /\ apc' = [apc EXCEPT ![a] = "done"]
            /\ aresp' = [aresp EXCEPT ![a] =
                            IF IsAdmin(req) THEN 200
                            ELSE IF row.exists THEN 400 ELSE 404]
            /\ UNCHANGED << areq, ainst >>
    /\ UNCHANGED << row, lock, now, ctx, calls, awrite, hist >>
    /\ UNCHANGED wvars

\* The view calls the model method (or the serializer's update) on the
\* instance it read; save() stamps updated_at and issues the UPDATE; destroy
\* issues the DELETE.
ApiSave(a) ==
    /\ apc[a] = "save"
    /\ LET r == Act(ainst[a], areq[a], now)
           stamped == r.inst.processed_at # ainst[a].processed_at
           t == IF stamped THEN now + 1 ELSE now
       IN  /\ ainst' = [ainst EXCEPT ![a] =
                           PreSave(r.inst, r.update_fields, t)]
           /\ awrite' = [awrite EXCEPT ![a] =
                            [fields |-> r.update_fields,
                             created |-> FALSE,
                             delete |-> areq[a].kind = "destroy"]]
           /\ now' = IF areq[a].kind = "destroy" THEN now ELSE t + 1
    /\ apc' = [apc EXCEPT ![a] = "saving"]
    /\ UNCHANGED << row, lock, ctx, calls, areq, aresp, hist >>
    /\ UNCHANGED wvars

\* The UPDATE (or DELETE) executes once the row lock is free and takes it.
\* A save(update_fields=...) that finds no row raises DatabaseError (500,
\* rolled back); a plain save() that finds no row inserts it, and post_save
\* then reports created=True.
ApiUpdate(a) ==
    /\ apc[a] = "saving"
    /\ lock = NoLock
    /\ IF ~ row.exists /\ ~ awrite[a].delete /\ awrite[a].fields # AllFields
       THEN /\ apc' = [apc EXCEPT ![a] = "done"]
            /\ aresp' = [aresp EXCEPT ![a] = 500]
            /\ areq' = [areq EXCEPT ![a] = NoReq]
            /\ ainst' = [ainst EXCEPT ![a] = NoInst]
            /\ awrite' = [awrite EXCEPT ![a] = NoWrite]
            /\ UNCHANGED lock
       ELSE /\ lock' = ApiTx(a)
            /\ apc' = [apc EXCEPT ![a] = "written"]
            /\ awrite' = [awrite EXCEPT ![a].created =
                             ~ row.exists /\ ~ awrite[a].delete]
            /\ UNCHANGED << areq, ainst, aresp >>
    /\ UNCHANGED << row, now, ctx, calls, hist >>
    /\ UNCHANGED wvars

\* The response is returned and ATOMIC_REQUESTS commits: the write becomes
\* visible, the lock is released and the on_commit callbacks run.
ApiCommit(a) ==
    /\ apc[a] = "written"
    /\ lock' = NoLock
    /\ IF awrite[a].delete
       THEN /\ row' = NoRow
            /\ calls' = calls
            /\ hist' = hist
            /\ aresp' = [aresp EXCEPT ![a] = 204]
       ELSE /\ row' = Written(row, ainst[a], awrite[a].fields)
            /\ calls' = calls \o
                   trigger_payment_processing(awrite[a].created,
                                              ainst[a].status)
            /\ hist' = Committed(row', awrite[a].created)
            /\ aresp' = [aresp EXCEPT ![a] = 200]
    /\ apc' = [apc EXCEPT ![a] = "done"]
    /\ areq' = [areq EXCEPT ![a] = NoReq]
    /\ ainst' = [ainst EXCEPT ![a] = NoInst]
    /\ awrite' = [awrite EXCEPT ![a] = NoWrite]
    /\ UNCHANGED << now, ctx >>
    /\ UNCHANGED wvars

\* The server takes the next request once a response has been returned.
ApiReturn(a) ==
    /\ apc[a] = "done"
    /\ apc' = [apc EXCEPT ![a] = "idle"]
    /\ aresp' = [aresp EXCEPT ![a] = Null]
    /\ UNCHANGED << row, lock, now, ctx, calls, areq, ainst, awrite, hist >>
    /\ UNCHANGED wvars

\* ----------------------------------------------------------- specification
\* Every operation, each API process serving one request.
Next ==
    \/ ApiCreate
    \/ \E s \in CreateStatuses : AdminCreate(s)
    \/ CreateCommit
    \/ CreateRollback
    \/ \E w \in Workers : WorkerLock1(w)
    \/ \E w \in Workers : WorkerCheck1(w)
    \/ \E w \in Workers, ok \in BOOLEAN : WorkerExternal(w, ok)
    \/ \E w \in Workers : WorkerLock2(w)
    \/ \E w \in Workers : WorkerFinal(w)
    \/ \E a \in Api, req \in Requests : ApiGetObject(a, req)
    \/ \E a \in Api : ApiSave(a)
    \/ \E a \in Api : ApiUpdate(a)
    \/ \E a \in Api : ApiCommit(a)

Spec == Init /\ [][Next]_vars

\* The transition operations alone, racing the worker: creation, worker
\* runs, the four transition views and the admin's bulk actions, each API
\* process serving one request after another.
NextTransitions ==
    \/ ApiCreate
    \/ \E s \in CreateStatuses : AdminCreate(s)
    \/ CreateCommit
    \/ CreateRollback
    \/ \E w \in Workers : WorkerLock1(w)
    \/ \E w \in Workers : WorkerCheck1(w)
    \/ \E w \in Workers, ok \in BOOLEAN : WorkerExternal(w, ok)
    \/ \E w \in Workers : WorkerLock2(w)
    \/ \E w \in Workers : WorkerFinal(w)
    \/ \E a \in Api, req \in TransitionRequests \cup AdminRequests :
           ApiGetObject(a, req)
    \/ \E a \in Api : ApiSave(a)
    \/ \E a \in Api : ApiUpdate(a)
    \/ \E a \in Api : ApiCommit(a)
    \/ \E a \in Api : ApiReturn(a)

SpecTransitions == Init /\ [][NextTransitions]_vars

\* A transition method called on a freshly loaded instance in a transaction
\* of its own, one call at a time: load, call, save, commit in one step.
Call(op, reason) ==
    /\ row.exists
    /\ lock = NoLock
    /\ LET r == CASE op = "approve" -> approve(Load(row))
                  [] op = "reject" -> reject(Load(row), reason)
                  [] op = "complete" -> complete(Load(row), now)
                  [] op = "cancel" -> cancel(Load(row))
           stamped == r.inst.processed_at # row.processed_at
           t == IF stamped THEN now + 1 ELSE now
           inst == PreSave(r.inst, r.update_fields, t)
       IN  /\ r.update_fields # {}
           /\ row' = Written(row, inst, r.update_fields)
           /\ now' = t + 1
           /\ calls' = calls \o trigger_payment_processing(FALSE, inst.status)
           /\ hist' = Committed(row', FALSE)
    /\ UNCHANGED << lock, ctx >>
    /\ UNCHANGED wvars
    /\ UNCHANGED avars

Ops == {"approve", "reject", "complete", "cancel"}

\* Sequential use of the state machine: creation, worker runs, and
\* transition methods called one at a time on a fresh read.
NextOps ==
    \/ ApiCreate
    \/ \E s \in CreateStatuses : AdminCreate(s)
    \/ CreateCommit
    \/ CreateRollback
    \/ \E w \in Workers : WorkerLock1(w)
    \/ \E w \in Workers : WorkerCheck1(w)
    \/ \E w \in Workers, ok \in BOOLEAN : WorkerExternal(w, ok)
    \/ \E w \in Workers : WorkerLock2(w)
    \/ \E w \in Workers : WorkerFinal(w)
    \/ \E op \in Ops, reason \in {Blank, UserReason} : Call(op, reason)

SpecOps == Init /\ [][NextOps]_vars

\* Sequential use with infrastructure failures: the broker may be
\* unreachable when the on_commit callback runs, and a worker run may meet
\* an unexpected database error.
NextFaults ==
    \/ ApiCreate
    \/ \E s \in CreateStatuses : AdminCreate(s)
    \/ CreateCommit
    \/ DispatchFails
    \/ CreateRollback
    \/ \E w \in Workers : WorkerLock1(w)
    \/ \E w \in Workers : WorkerCheck1(w)
    \/ \E w \in Workers, ok \in BOOLEAN : WorkerExternal(w, ok)
    \/ \E w \in Workers : WorkerLock2(w)
    \/ \E w \in Workers : WorkerFinal(w)
    \/ \E w \in Workers : WorkerError(w)
    \/ \E op \in Ops, reason \in {Blank, UserReason} : Call(op, reason)

SpecFaults == Init /\ [][NextFaults]_vars

\* The transition method `op` names, called on the instance `inst` with the
\* clock reading t.
Method(op, inst, reason, t) ==
    CASE op = "approve" -> approve(inst)
      [] op = "reject" -> reject(inst, reason)
      [] op = "complete" -> complete(inst, t)
      [] op = "cancel" -> cancel(inst)

\* The stored requests the transition methods can meet: the admin's change
\* form edits status and rejection_reason freely, and processed_at is set
\* or not according to whether the request was ever completed.
StoredRows ==
    [exists : {TRUE},
     status : Status,
     rejection_reason : {Blank, UserReason, WorkerReason},
     processed_at : {Null, 1},
     updated_at : {1}]

\* The latest clock reading at which the first method call is made.
MaxClock == 3

\* A request is stored, committed, and no task is waiting for it; the
\* methods are called at some later time.
InitMethods ==
    /\ row \in StoredRows
    /\ lock = NoLock
    /\ now \in 2 .. MaxClock
    /\ ctx = [pc |-> "committed", status |-> row.status,
              updated_at |-> 1, on_commit |-> << >>]
    /\ calls = << >>
    /\ wpc = [w \in Workers |-> "idle"]
    /\ winst = [w \in Workers |-> NoInst]
    /\ wsuccess = [w \in Workers |-> FALSE]
    /\ wresult = [w \in Workers |-> "none"]
    /\ apc = [a \in Api |-> "idle"]
    /\ areq = [a \in Api |-> NoReq]
    /\ ainst = [a \in Api |-> NoInst]
    /\ awrite = [a \in Api |-> NoWrite]
    /\ aresp = [a \in Api |-> Null]
    /\ wsaved = [w \in Workers |-> << >>]
    /\ hist = [completed |-> row.processed_at # Null, inserts |-> 0,
               left |-> {}]

\* The transition methods alone, called one at a time on any stored request.
NextMethods ==
    \E op \in Ops, reason \in {Blank, UserReason} : Call(op, reason)

SpecMethods == InitMethods /\ [][NextMethods]_vars

\* Sequential use under the scheduling the broker and the database give:
\* a published task is delivered to some worker run; a run's steps between
\* its locks are taken (nothing there waits); and a run waiting for the row
\* lock gets it if the lock is free again and again.
Fairness ==
    /\ SF_vars(\E w \in Workers : WorkerLock1(w))
    /\ \A w \in Workers :
          /\ WF_vars(WorkerCheck1(w))
          /\ WF_vars(\E ok \in BOOLEAN : WorkerExternal(w, ok))
          /\ SF_vars(WorkerLock2(w))
          /\ WF_vars(WorkerFinal(w))

SpecLive == Init /\ [][NextOps]_vars /\ Fairness

\* ============================================================= properties
\* The transition graph of the specification.
Successors(s) ==
    CASE s = PENDING -> {PROCESSING, APPROVED, REJECTED, CANCELLED}
      [] s = PROCESSING -> {APPROVED, REJECTED, CANCELLED}
      [] s = APPROVED -> {COMPLETED, CANCELLED}
      [] OTHER -> {}

\* The request was created PENDING and only worker run w has acted on it.
OnlyWorker(w) ==
    /\ ctx.pc = "committed"
    /\ ctx.status = PENDING
    /\ \A a \in Api : apc[a] = "idle"
    /\ \A v \in Workers \ {w} : wpc[v] = "idle"

\* C1: a single worker run on a request created PENDING whose external call
\* succeeds ends with the status APPROVED and processed_at still null.
C1_WorkerSuccessApproves ==
    \A w \in Workers :
        (OnlyWorker(w) /\ wpc[w] = "done" /\ wresult[w] = "Approved")
            => (row.status = APPROVED /\ row.processed_at = Null)

\* C2: with the transition methods called one at a time on a fresh read, and
\* the worker's steps, every change of status follows an edge of the
\* transition graph and never returns to a status that was left.
C2_SequentialChangesFollowGraph ==
    [][(row.exists /\ row'.status # row.status)
          => /\ row'.status \in Successors(row.status)
             /\ row'.status \notin hist.left]_vars

C2_Witness ==
    /\ row.status = COMPLETED
    /\ hist.left = {PENDING, APPROVED}

\* C3: under any interleaving of worker runs and API actions, every change
\* of the stored status follows an edge of the transition graph, so a
\* terminal status is never changed.
C3_ConcurrentChangesFollowGraph ==
    [][(row.exists /\ row'.exists /\ row'.status # row.status)
          => row'.status \in Successors(row.status)]_vars

\* C4: when every delivery of the task for a PENDING request has run and
\* nothing else has touched the request, exactly one run saved PROCESSING,
\* exactly one run made the terminal save, and every other run skipped
\* without saving.
C4_OneProcessingOneTerminal ==
    (/\ ctx.status = PENDING
     /\ \A a \in Api : apc[a] = "idle"
     /\ \A w \in Workers : wpc[w] = "done")
        => /\ Cardinality({w \in Workers : Len(wsaved[w]) >= 1}) = 1
           /\ Cardinality({w \in Workers : Len(wsaved[w]) = 2}) = 1
           /\ \A w \in Workers :
                  \/ wsaved[w] # << >> /\ wsaved[w][1] = PROCESSING
                  \/ wsaved[w] = << >> /\ wresult[w] = "Skipped"

\* C5: a request created PENDING whose stored status is REJECTED has a
\* non-empty rejection_reason.
C5_RejectedHasReason ==
    (ctx.status = PENDING /\ row.exists /\ row.status = REJECTED)
        => row.rejection_reason # Blank

\* C6: for a request created PENDING and changed by the transition
\* operations and worker runs only, processed_at is set exactly when
\* COMPLETED is or has been the stored status, and once set it is never
\* cleared.
C6_ProcessedAtIffCompleted ==
    [][ctx.status = PENDING
          => /\ row'.exists => (row'.processed_at # Null <=> hist'.completed)
             /\ (row.exists /\ row.processed_at # Null)
                    => (row'.exists /\ row'.processed_at # Null)]_vars

C6_Witness ==
    /\ ctx.status = PENDING
    /\ row.exists
    /\ row.status # COMPLETED
    /\ hist.completed
    /\ row.processed_at # Null

\* C7: a single worker run on a request created PENDING whose external call
\* fails has saved PROCESSING and then REJECTED, and leaves the status
\* REJECTED with a non-empty rejection_reason.
C7_WorkerFailureRejects ==
    \A w \in Workers :
        (OnlyWorker(w) /\ wpc[w] = "done" /\ wresult[w] = "Rejected")
            => /\ wsaved[w] = << PROCESSING, REJECTED >>
               /\ row.status = REJECTED
               /\ row.rejection_reason # Blank

C7_Witness ==
    \E w \in Workers :
        /\ OnlyWorker(w)
        /\ wpc[w] = "done"
        /\ wresult[w] = "Rejected"
        /\ row.status = REJECTED

\* C8: the cancel view racing worker runs (no other request in flight) never
\* overwrites a committed result: when its UPDATE commits, the stored status
\* is still one that cancel() may leave (PENDING or PROCESSING).
C8_CancelNeverOverwrites ==
    [][\A a \in Api :
          (/\ apc[a] = "written"
           /\ apc'[a] = "done"
           /\ areq[a].kind = "cancel"
           /\ \A b \in Api \ {a} : apc[b] = "idle")
              => row.status \in {PENDING, PROCESSING}]_vars

\* C9: whoever has read the status on which its write will be based holds
\* the row lock (lock, then read, then write, then commit).
C9_ReadUnderLock ==
    /\ \A w \in Workers : wpc[w] \in {"check1", "final"} => lock = WorkerTx(w)
    /\ \A a \in Api : apc[a] \in {"save", "saving", "written"} => lock = ApiTx(a)

\* C10: apply_async has been called exactly once, with the request id and a
\* countdown of 2, if the request was created PENDING and its creating
\* transaction has committed, and never otherwise.
C10_ScheduledExactlyOnce ==
    calls = IF ctx.pc = "committed" /\ ctx.status = PENDING
            THEN << [args |-> "id", countdown |-> 2] >>
            ELSE << >>

\* C11: a worker run that ends in an unexpected failure (fewer than 3 runs
\* have failed so far) is retried: its failing step publishes the task
\* again.
C11_UnexpectedFailureRetried ==
    [][\A w \in Workers :
          (/\ wresult[w] # "raised OperationalError"
           /\ wresult'[w] = "raised OperationalError"
           /\ Cardinality({v \in Workers :
                  wresult[v] = "raised OperationalError"}) < MaxRetries)
              => Len(calls') = Len(calls) + 1]_vars

\* C12: a worker run that finds no row when it locks, at the first lock or
\* at the re-lock after the external call, ends with the result "Failed:
\* Request not found" without raising, writes nothing and publishes no
\* retry.
C12_NotFoundEndsQuietly ==
    [][\A w \in Workers :
          (/\ wpc[w] \in {"idle", "lock2"}
           /\ wpc'[w] = "done"
           /\ ~ row.exists)
              => /\ wresult'[w] = "Failed: Request not found"
                 /\ row' = row
                 /\ calls' = calls]_vars

\* C13: when apply_async raises in the on_commit callback of a creation, the
\* created request is kept: the row exists, and its status is PENDING until
\* a transition method moves it from PENDING.
C13_DispatchFailureKeepsRequest ==
    ctx.pc = "dispatch_failed"
        => /\ row.exists
           /\ row.status = PENDING \/ PENDING \in hist.left

C13_Witness ==
    /\ ctx.pc = "dispatch_failed"
    /\ calls = << >>
    /\ row.exists
    /\ row.status = PENDING

\* The request was created PENDING and went from PENDING straight to
\* CANCELLED, which is its stored status.
CancelledWhilePending ==
    /\ ctx.status = PENDING
    /\ row.exists
    /\ row.status = CANCELLED
    /\ hist.left = {PENDING}

\* C14: the cancel view committing on a PENDING row stores CANCELLED; and
\* once a request has been cancelled while PENDING, every step of a worker
\* run leaves the row as it is, and the run reads the status under the lock
\* and ends as a skip.
C14_CancelBeforeWorker ==
    [][/\ \A a \in Api :
             (/\ apc[a] = "written"
              /\ apc'[a] = "done"
              /\ areq[a].kind = "cancel"
              /\ row.status = PENDING)
                 => row'.status = CANCELLED
       /\ \A w \in Workers :
             (CancelledWhilePending /\ wpc'[w] # wpc[w])
                 => /\ row' = row
                    /\ wpc'[w] \in {"check1", "done"}
                    /\ wpc'[w] = "done" => wresult'[w] = "Skipped"]_vars

C14_Witness ==
    /\ CancelledWhilePending
    /\ \E w \in Workers : wpc[w] = "done" /\ wresult[w] = "Skipped"

\* The statuses from which the specification lets each method act.
Legal(op) ==
    CASE op = "approve" -> {PENDING}
      [] op = "reject" -> {PENDING, PROCESSING}
      [] op = "complete" -> {APPROVED}
      [] op = "cancel" -> {PENDING, PROCESSING}

\* C15: each transition method is idempotent: for every stored request and
\* every reason, a second call of the same method on the instance, right
\* after the first has saved, saves nothing and changes no field.
C15_Idempotent ==
    \A op \in Ops, reason \in {Blank, UserReason} :
        LET first == Method(op, Load(row), reason, now)
            saved == PreSave(first.inst, first.update_fields, now + 1)
            second == Method(op, saved, reason, now + 2)
        IN  /\ second.update_fields = {}
            /\ second.inst = saved

C15_Witness ==
    /\ row.status = COMPLETED
    /\ row.processed_at > 1
    /\ complete(Load(row), now).update_fields = {}

\* C16: a transition method called from a status outside its legal set
\* saves nothing and returns the instance as it was, so status,
\* rejection_reason, processed_at and updated_at keep their values.
C16_IllegalCallIsNoOp ==
    \A op \in Ops, reason \in {Blank, UserReason} :
        row.status \notin Legal(op)
            => Method(op, Load(row), reason, now)
                   = [inst |-> Load(row), update_fields |-> {}]

C16_Witness ==
    /\ row.status = APPROVED
    /\ row.updated_at > 1
    /\ approve(Load(row)) = [inst |-> Load(row), update_fields |-> {}]
    /\ cancel(Load(row)) = [inst |-> Load(row), update_fields |-> {}]

\* The row a legal call of `op` must leave: the status (and the method's own
\* field) set, updated_at stamped, every other column as it was.
Expected(op, reason) ==
    CASE op = "approve" ->
             [row EXCEPT !.status = APPROVED, !.updated_at = now]
      [] op = "reject" ->
             [row EXCEPT !.status = REJECTED, !.rejection_reason = reason,
                         !.updated_at = now]
      [] op = "complete" ->
             [row EXCEPT !.status = COMPLETED, !.processed_at = now,
                         !.updated_at = now + 1]
      [] op = "cancel" ->
             [row EXCEPT !.status = CANCELLED, !.updated_at = now]

\* The columns a call of `op` may write.
OwnFields(op) ==
    CASE op = "reject" -> {"status", "rejection_reason", "updated_at"}
      [] op = "complete" -> {"status", "processed_at", "updated_at"}
      [] OTHER -> {"status", "updated_at"}

\* C17: a method called from a legal status acts, and the call leaves
\* exactly the specified row: the new status, the reason for reject, the
\* stamp for complete, updated_at, and no other column written; cancel acts
\* exactly when can_be_cancelled holds, that is from PENDING or PROCESSING.
C17_LegalCallResult ==
    [][/\ \A op \in Ops, reason \in {Blank, UserReason} :
             /\ row.status \in Legal(op)
                    => /\ Method(op, Load(row), reason, now).update_fields
                              = OwnFields(op)
                       /\ ENABLED Call(op, reason)
             /\ Call(op, reason) => row' = Expected(op, reason)
       /\ cancel(Load(row)).update_fields # {} <=> can_be_cancelled(Load(row))
       /\ can_be_cancelled(Load(row)) <=> row.status \in {PENDING, PROCESSING}
      ]_vars

C17_Witness ==
    /\ row.status = REJECTED
    /\ row.rejection_reason = UserReason
    /\ row.updated_at > 1

\* C18: a request whose stored status is PROCESSING or COMPLETED is never
\* deleted, whatever the interleaving of the delete view with worker runs
\* and the other requests.
C18_NeverDeletedWhileProcessing ==
    [][(row.exists /\ ~ row'.exists)
          => row.status \notin {PROCESSING, COMPLETED}]_vars

\* C19: processed_at is written at most once: once the stored processed_at
\* is set, no later write changes it, also when complete requests for the
\* same APPROVED request run concurrently.
C19_ProcessedAtWrittenOnce ==
    [][(row.exists /\ row.processed_at # Null /\ row'.exists)
          => row'.processed_at = row.processed_at]_vars

\* C20: a worker run that has read a status other than PENDING under the
\* row lock is a skip: its next step writes no field of the row, publishes
\* no task, and ends the run with the result "Skipped"; a skipped run is
\* finished and has saved nothing, so it never reaches the external call or
\* the second lock.
C20_SkipWritesNothing ==
    [][\A w \in Workers :
          /\ (/\ wpc[w] = "check1"
              /\ winst[w].status # PENDING
              /\ wpc'[w] # wpc[w])
                 => /\ row' = row
                    /\ calls' = calls
                    /\ wpc'[w] = "done"
                    /\ wresult'[w] = "Skipped"
          /\ wresult'[w] = "Skipped"
                 => wpc'[w] = "done" /\ wsaved'[w] = << >>]_vars

C20_Witness ==
    /\ row.exists
    /\ row.status = PROCESSING
    /\ \E w \in Workers :
          wpc[w] = "done" /\ wresult[w] = "Skipped" /\ wsaved[w] = << >>

\* C21: the final step of a worker run that saved PROCESSING, finding the
\* row REJECTED or CANCELLED (a user transition committed during the
\* external call), writes nothing: status, rejection_reason and the other
\* columns stay as the user transition committed them.
C21_FinalKeepsUserDecision ==
    [][\A w \in Workers :
          (/\ wpc[w] = "final"
           /\ wpc'[w] = "done"
           /\ wsaved[w] = << PROCESSING >>
           /\ row.status \in {REJECTED, CANCELLED})
              => /\ row' = row
                 /\ wsaved'[w] = wsaved[w]]_vars

C21_Witness ==
    \E w \in Workers :
        /\ wpc[w] = "done"
        /\ wsaved[w] = << PROCESSING >>
        /\ wresult[w] = "Rejected"
        /\ row.exists
        /\ row.status = CANCELLED
        /\ row.rejection_reason = Blank

\* C22: a worker run in its external call, or waiting to re-lock, holds no
\* row lock and has committed PROCESSING; the lock is held by a run only in
\* its two locked steps; and while a run is in its external call an API
\* request's UPDATE is not blocked unless another transaction holds the
\* lock.
C22_NoLockDuringExternalCall ==
    \A w \in Workers :
        /\ wpc[w] \in {"external", "lock2"}
               => /\ lock # WorkerTx(w)
                  /\ wsaved[w] = << PROCESSING >>
                  /\ PROCESSING \in hist.left \/ row.status = PROCESSING
                         \/ ~ row.exists
        /\ lock = WorkerTx(w) => wpc[w] \in {"check1", "final"}
        /\ wpc[w] = "external"
               => \A a \in Api :
                      (apc[a] = "saving" /\ lock = NoLock)
                          => ENABLED ApiUpdate(a)

C22_Witness ==
    \E w \in Workers, a \in Api :
        /\ wpc[w] = "external"
        /\ apc[a] = "written"
        /\ lock = ApiTx(a)
        /\ row.status = PROCESSING

\* C23: an API transition action on a request whose status is outside the
\* action's legal set answers 400 and leaves the row unchanged, and an
\* action answers with success only when its write changes the stored
\* status.
C23_ErrorOrStatusChange ==
    [][\A a \in Api :
          /\ \A req \in TransitionRequests :
                 (/\ ApiGetObject(a, req)
                  /\ row.exists
                  /\ row.status \notin Legal(req.kind))
                     => /\ aresp'[a] = 400
                        /\ apc'[a] = "done"
                        /\ row' = row
          /\ (/\ apc[a] = "written"
              /\ apc'[a] = "done"
              /\ areq[a].kind \in Ops
              /\ aresp'[a] = 200)
                 => row'.status # row.status]_vars

C25_EveryEdgeTaken ==
    row.exists
        => LET produced ==
                   {Method(op, Load(row), reason, now).inst.status :
                        op \in Ops, reason \in {Blank, UserReason}}
                   \cup (IF row.status = PENDING THEN {PROCESSING} ELSE {})
           IN  produced \ {row.status} = Successors(row.status)

\* C26: with the task delivered, no exception and fair lock acquisition, a
\* request created PENDING eventually has another status, and every worker
\* run that has started ends as skipped, not found, approved or rejected.
C26_PendingIsLeftAndRunsEnd ==
    /\ (ctx.pc = "committed" /\ ctx.status = PENDING)
           ~> (row.exists /\ row.status # PENDING)
    /\ \A w \in Workers :
           (wpc[w] \notin {"idle", "done"})
               ~> (/\ wpc[w] = "done"
                   /\ wresult[w] \in {"Skipped", "Failed: Request not found",
                                      "Approved", "Rejected"})

C26_Witness ==
    /\ ctx.pc = "committed"
    /\ ctx.status = PENDING
    /\ row.status = PROCESSING
    /\ \E w \in Workers : wpc[w] = "done" /\ wresult[w] = "Approved"
    /\ \E w \in Workers : wpc[w] = "done" /\ wresult[w] = "Skipped"

\* Worker run v committed PROCESSING and then failed without a terminal
\* save, and PROCESSING is still the stored status.
LeftProcessing(v) ==
    /\ wpc[v] = "done"
    /\ wresult[v] = "raised OperationalError"
    /\ wsaved[v] = << PROCESSING >>
    /\ row.exists
    /\ row.status = PROCESSING

\* C27: once a worker run has committed PROCESSING and failed before its
\* terminal save, no worker run saves anything: a later run only reads the
\* status under the lock and ends without a write, and the row changes only
\* by a reject or a cancel, which leave it REJECTED or CANCELLED.
C27_StuckProcessingOnlyUserMoves ==
    [][(\E v \in Workers : LeftProcessing(v))
          => /\ wsaved' = wsaved
             /\ \A w \in Workers :
                    wpc'[w] # wpc[w]
                        => /\ row' = row
                           /\ wpc'[w] \in {"check1", "done"}
                           /\ wresult'[w] \in
                                  {"none", "Skipped", "raised OperationalError"}
             /\ row' # row
                    => /\ row'.status \in {REJECTED, CANCELLED}
                       /\ wpc' = wpc]_vars

C27_Witness ==
    \E v, w \in Workers :
        /\ LeftProcessing(v)
        /\ wpc[w] = "done"
        /\ wresult[w] = "Skipped"

\* C28: a PATCH that carries a status is refused with 400, leaving the row
\* unchanged, unless the status is a successor, in the transition graph, of
\* the status the serializer read; an accepted one sets its instance to
\* that successor, stamps processed_at when it is COMPLETED, and its commit
\* stores that status.
C28_PatchFollowsGraph ==
    [][\A a \in Api :
          /\ \A req \in PatchRequests :
                 (/\ ApiGetObject(a, req)
                  /\ row.exists
                  /\ req.status # Absent
                  /\ req.status \notin Successors(row.status))
                     => /\ aresp'[a] = 400
                        /\ apc'[a] = "done"
                        /\ row' = row
          /\ (/\ areq[a].kind = "partial_update"
              /\ areq[a].status # Absent
              /\ apc[a] = "save"
              /\ apc'[a] = "saving")
                 => /\ areq[a].status \in Successors(ainst[a].status)
                    /\ ainst'[a].status = areq[a].status
                    /\ areq[a].status = COMPLETED
                           => ainst'[a].processed_at = now
          /\ (/\ areq[a].kind = "partial_update"
              /\ areq[a].status # Absent
              /\ apc[a] = "written"
              /\ apc'[a] = "done")
                 => /\ row'.status = areq[a].status
                    /\ areq[a].status = COMPLETED
                           => row'.processed_at # Null]_vars

C28_Witness ==
    \E a \in Api :
        /\ apc[a] = "written"
        /\ areq[a].kind = "partial_update"
        /\ areq[a].status = COMPLETED
        /\ ainst[a].processed_at # Null
        /\ row.status = APPROVED

\* C29: no PATCH leaves the request REJECTED with an empty rejection_reason:
\* the commit of a PATCH on a row that is not already in that state, with no
\* other request or worker run in flight, does not produce it.
C29_PatchKeepsRejectionReason ==
    [][\A a \in Api :
          (/\ areq[a].kind = "partial_update"
           /\ apc[a] = "written"
           /\ apc'[a] = "done"
           /\ \A b \in Api \ {a} : apc[b] \in {"idle", "done"}
           /\ \A w \in Workers : wpc[w] \in {"idle", "done"}
           /\ row.exists
           /\ ~ (row.status = REJECTED /\ row.rejection_reason = Blank))
              => ~ (row'.status = REJECTED /\ row'.rejection_reason = Blank)
      ]_vars

====
